---- MODULE Spec2Model ----
(***************************************************************************)
(* Account views of Weblate (weblate/accounts/views.py): login, logout,    *)
(* password change, profile update, account removal, contact and hosting   *)
(* mail relays, registration and API key reset, as a state machine over    *)
(* the users, their profiles and tokens, the browser sessions and the      *)
(* rate limiter.  Every action is one request handled from start to end.   *)
(***************************************************************************)
EXTENDS Integers, Sequences, FiniteSets, TLC

\* ---------------------------------------------------------------- bounds
MaxSalt == 1
AUTH_MAX_ATTEMPTS == 2
MaxWrong == 4

\* ------------------------------------------------------------ value sets
Sessions == {"s1", "s2", "s3"}
Usernames == {"demo", "testuser"}
Passwords == {"p1", "p2"}
Languages == {"en", "cs"}
Methods == {"GET", "POST"}
Subjects == {<<"H", "i">>, <<"%", "s">>}
Projects == {<<"H", "O", "S", "T">>}
Admins == {<<>>, <<"admin@example.org">>}
BackendSets == {{"email"}, {"github"}, {"email", "github"}}

Anonymous == ""
NoHash == [password |-> "", salt |-> 0]

VARIABLES
    settings,   \* django.conf.settings as read by the views
    users,      \* auth.User rows: [usable, password, salt, is_active]
    profile,    \* accounts.Profile rows: [language]
    tokens,     \* authtoken.Token rows: set of [user, key]
    sessions,   \* the session store: session -> session data
    ratelimit,  \* attempts counted by the rate limiter for the client
    calls,      \* calls made to the collaborators by the last request
    response,   \* the answer to the last request
    last,       \* the last request and what it read on entry
    inflight,   \* password requests being handled at the same time
    wrong       \* wrong current passwords compared by those requests

vars == <<settings, users, profile, tokens, sessions, ratelimit, calls,
          response, last, inflight, wrong>>

\* ------------------------------------------------------------- templates
\* settings.EMAIL_SUBJECT_PREFIX, a string as the sequence of its characters
EMAIL_SUBJECT_PREFIX ==
    <<"[", "W", "e", "b", "l", "a", "t", "e", "]", " ">>

FormNames == {"ProfileForm", "SubscriptionForm", "SubscriptionSettingsForm",
              "UserSettingsForm", "DashboardSettingsForm", "UserForm"}

form_classes == {"ProfileForm", "SubscriptionForm", "SubscriptionSettingsForm",
                 "UserSettingsForm", "DashboardSettingsForm"}

\* ------------------------------------------------------ session handling
EmptySession ==
    [user |-> Anonymous, hash |-> NoHash, auth_attempts |-> 0,
     show_set_password |-> FALSE, registration_email_sent |-> FALSE]

\* User.get_session_auth_hash(): a digest of the stored password field,
\* which holds the salt drawn by the last set_password().
get_session_auth_hash(u) ==
    [password |-> users[u].password, salt |-> users[u].salt]

\* request.user as the authentication middleware resolves it: the session's
\* user when that user is active and the session's hash is the user's.
get_user(sess) ==
    IF /\ sess.user # Anonymous
       /\ users[sess.user].is_active
       /\ sess.hash = get_session_auth_hash(sess.user)
    THEN sess.user
    ELSE Anonymous

is_authenticated(s) == get_user(sessions[s]) # Anonymous

\* session.flush(): the session's data is dropped.
flush(sess) == EmptySession

\* The session once request.user has been resolved: a session whose user no
\* longer verifies is flushed.
resolve(sess) ==
    IF sess.user # Anonymous /\ get_user(sess) = Anonymous
    THEN flush(sess)
    ELSE sess

\* session.cycle_key(): the same data under a new key.  Keys are not part of
\* the state; the calls are counted in calls.cycle_key.
cycle_key(sess) == sess

\* django.contrib.auth.logout(request)
logout(sess) == flush(sess)

\* ------------------------------------------------------------- responses
NoCalls ==
    [profile_saves |-> 0, user_saves |-> 0, mails |-> <<>>, notify |-> <<>>,
     check_password |-> 0, check_rate_limit |-> 0, rotate_token |-> 0,
     cycle_key |-> 0, set_lang |-> ""]

NoRequest == [op |-> "", method |-> "", s |-> "", user |-> Anonymous]

NoResponse ==
    [kind |-> "", to |-> "", arg |-> "", fragment |-> <<>>, cookie |-> "",
     message |-> ""]

redirect(name, message) ==
    [kind |-> "redirect", to |-> name, arg |-> "", fragment |-> <<>>,
     cookie |-> "", message |-> message]

render(template, message) ==
    [kind |-> "render", to |-> template, arg |-> "", fragment |-> <<>>,
     cookie |-> "", message |-> message]

HttpResponseNotAllowed ==
    [kind |-> "status", to |-> "405", arg |-> "", fragment |-> <<>>,
     cookie |-> "", message |-> ""]

\* redirect_profile(page): the profile URL, with the page as its fragment
\* when the page starts with '#'.
redirect_profile(page, message) ==
    [kind |-> "redirect", to |-> "profile", arg |-> "",
     fragment |-> IF page # <<>> /\ page[1] = "#" THEN page ELSE <<>>,
     cookie |-> "", message |-> message]

\* redirect('social:begin', backend)
redirect_begin(backends) ==
    [redirect("social:begin", "") EXCEPT !.arg = CHOOSE b \in backends : TRUE]

\* deny_demo(request)
deny_demo(activetab) == redirect_profile(activetab, "warning:demo")

is_demo_inverted(u) == ~settings.DEMO_SERVER /\ u = "demo"

\* The guard in front of every edit of the demo account.
is_demo(u) == settings.DEMO_SERVER /\ u = "demo"

\* @login_required answering an anonymous request
redirect_to_login == redirect("login", "")

Tabs == {<<"#", "a">>, <<"a">>}
AuthTab == <<"#", "a", "u", "t", "h">>
ApiTab == <<"#", "a", "p", "i">>

\* ---------------------------------------------------------------- login
check_password_any(u, raw) == users[u].usable

\* User.check_password(raw)
check_password(u, raw) == users[u].usable /\ users[u].password = raw

\* LoginForm: the credentials name an active user and its password.
authenticate(u, raw) == users[u].is_active /\ check_password(u, raw)

\* The only configured backend when it is a single one other than email.
single_backend(backends) ==
    Cardinality(backends) = 1 /\ "email" \notin backends

\* django.contrib.auth.login(request, user) on a resolved session: the
\* session keeps its data under a new key and is bound to the user.
auth_login(sess, u) ==
    [cycle_key(sess) EXCEPT !.user = u, !.hash = get_session_auth_hash(u)]

weblate_login(s, method, u, raw) ==
    LET sess == resolve(sessions[s])
        req == [op |-> "login", method |-> method, s |-> s,
                user |-> sess.user, attempts |-> sess.auth_attempts,
                logged_in |-> FALSE]
    IN  /\ last' = IF /\ sess.user = Anonymous
                      /\ ~single_backend(settings.BACKENDS)
                      /\ method = "POST"
                      /\ authenticate(u, raw)
                   THEN [req EXCEPT !.logged_in = TRUE, !.user = u]
                   ELSE req
        /\ IF sess.user # Anonymous
           THEN /\ response' = redirect_profile(<<>>, "")
                /\ sessions' = [sessions EXCEPT ![s] = sess]
                /\ calls' = NoCalls
           ELSE IF single_backend(settings.BACKENDS)
           THEN /\ response' = redirect_begin(settings.BACKENDS)
                /\ sessions' = [sessions EXCEPT ![s] = sess]
                /\ calls' = NoCalls
           ELSE IF method = "POST" /\ authenticate(u, raw)
           THEN /\ sessions' = [sessions EXCEPT ![s] = auth_login(sess, u)]
                /\ calls' = [NoCalls EXCEPT !.rotate_token = 1, !.cycle_key = 1]
                /\ response' = redirect("home", "")
           ELSE /\ response' = render("accounts/login.html", "")
                /\ sessions' = [sessions EXCEPT ![s] = sess]
                /\ calls' = NoCalls
        /\ UNCHANGED <<inflight, wrong, settings, users, profile, tokens,
                       ratelimit>>

weblate_logout(s, method) ==
    LET sess == resolve(sessions[s])
    IN  /\ last' = [op |-> "logout", method |-> method, s |-> s,
                    user |-> IF method = "POST" THEN sess.user ELSE Anonymous]
        /\ calls' = NoCalls
        /\ IF method # "POST"
           THEN /\ response' = HttpResponseNotAllowed
                /\ UNCHANGED sessions
           ELSE IF sess.user = Anonymous
           THEN /\ response' = redirect_to_login
                /\ sessions' = [sessions EXCEPT ![s] = sess]
           ELSE /\ response' = redirect("home", "info:thanks")
                /\ sessions' = [sessions EXCEPT ![s] = logout(sess)]
        /\ UNCHANGED <<inflight, wrong, settings, users, profile, tokens,
                       ratelimit>>

\* ------------------------------------------------------ password change
\* The sessions other than s that are logged in as u.
other_sessions(s, u) ==
    {t \in Sessions \ {s} : get_user(sessions[t]) = u}

too_many_attempts_above(usable, method, attempts) ==
    usable /\ method = "POST" /\ attempts > AUTH_MAX_ATTEMPTS

\* Too many failed attempts: the POST of an account with a usable password
\* finds the session's counter at the maximum.
too_many_attempts(usable, method, attempts) ==
    usable /\ method = "POST" /\ attempts >= AUTH_MAX_ATTEMPTS

compares_password_unvalidated(usable, method, attempts, form) ==
    /\ usable
    /\ method = "POST"
    /\ ~too_many_attempts(usable, method, attempts)

\* Whether the current password is compared: a POST below the maximum of an
\* account with a usable password whose PasswordChangeForm is valid.
compares_password(usable, method, attempts, form) ==
    /\ usable
    /\ method = "POST"
    /\ ~too_many_attempts(usable, method, attempts)
    /\ form.cur_valid

do_change_compared_only(usable, compared, matches) ==
    compared /\ matches

\* do_change: no usable password, or the current password was compared and
\* matches.
do_change(usable, compared, matches) ==
    ~usable \/ (compared /\ matches)

count_attempt_kept(attempts, matches) ==
    IF matches THEN 0 ELSE attempts

\* session['auth_attempts'] after the comparison
count_attempt(attempts, matches) ==
    IF matches THEN 0 ELSE attempts + 1

\* SetPasswordForm.save(): User.set_password(new) draws a new salt.
set_password(row, raw) ==
    [row EXCEPT !.usable = TRUE, !.password = raw, !.salt = row.salt + 1]

update_session_auth_hash_stale(sess, hash) == cycle_key(sess)

\* update_session_auth_hash(request, user): the key is cycled and the
\* session takes the hash of the user's new password.
update_session_auth_hash(sess, hash) ==
    [cycle_key(sess) EXCEPT !.hash = hash]

\* The forms of a password POST: the PasswordChangeForm (valid or not, and
\* the current password it carries when valid) and the SetPasswordForm
\* (valid or not, and the new password it carries when valid).
PasswordForms ==
    {f \in [cur_valid : BOOLEAN, password : Passwords \cup {""},
            new_valid : BOOLEAN, new_password : Passwords \cup {""}] :
        /\ f.cur_valid <=> f.password # ""
        /\ f.new_valid <=> f.new_password # ""}

\* The password page asked for with GET carries no form.
BlankPassword ==
    [cur_valid |-> FALSE, password |-> "", new_valid |-> FALSE,
     new_password |-> ""]

password(s, method, form, activetab) ==
    /\ UNCHANGED <<inflight, wrong, settings, profile, tokens, ratelimit>>
    /\ LET sess == resolve(sessions[s])
           u == sess.user
       IN  IF u = Anonymous
           THEN /\ last' = [op |-> "password", method |-> method, s |-> s,
                            user |-> Anonymous]
                /\ response' = redirect_to_login
                /\ sessions' = [sessions EXCEPT ![s] = sess]
                /\ calls' = NoCalls
                /\ UNCHANGED users
           ELSE
           LET attempts == sess.auth_attempts
               usable == users[u].usable
               locked == too_many_attempts(usable, method, attempts)
               compared == compares_password(usable, method, attempts, form)
               matches == check_password(u, form.password)
               change == do_change(usable, compared, matches)
               counted == IF compared
                          THEN [sess EXCEPT !.auth_attempts =
                                             count_attempt(attempts, matches)]
                          ELSE sess
               saves == method = "POST" /\ form.new_valid /\ change
               row == set_password(users[u], form.new_password)
               hash == [password |-> row.password, salt |-> row.salt]
               req == [op |-> "password", method |-> method, s |-> s,
                       user |-> u, attempts |-> attempts, usable |-> usable,
                       denied |-> is_demo(u),
                       others |-> other_sessions(s, u),
                       form |-> IF method = "POST" THEN form
                                ELSE BlankPassword,
                       matches |-> compared /\ matches,
                       changed |-> ~is_demo(u) /\ ~locked /\ saves]
           IN  /\ last' = req
               /\ IF is_demo(u)
                  THEN /\ response' = deny_demo(IF method = "POST"
                                                THEN activetab ELSE <<>>)
                       /\ sessions' = [sessions EXCEPT ![s] = sess]
                       /\ calls' = NoCalls
                       /\ UNCHANGED users
                  ELSE IF locked
                  THEN /\ response' = redirect("login", "error:attempts")
                       /\ sessions' = [sessions EXCEPT ![s] = logout(sess)]
                       /\ calls' = NoCalls
                       /\ UNCHANGED users
                  ELSE IF saves
                  THEN /\ users[u].salt < MaxSalt
                       /\ users' = [users EXCEPT ![u] = row]
                       /\ sessions' =
                            [sessions EXCEPT ![s] =
                               cycle_key(
                                 update_session_auth_hash(
                                   [counted EXCEPT !.show_set_password = FALSE],
                                   hash))]
                       /\ calls' = [NoCalls EXCEPT
                                      !.check_password =
                                          IF compared THEN 1 ELSE 0,
                                      !.cycle_key = 2,
                                      !.notify = <<[user |-> u,
                                                    activity |-> "password"]>>]
                       /\ response' =
                            redirect_profile(IF sess.show_set_password
                                             THEN <<>> ELSE AuthTab,
                                             "success:password")
                  ELSE /\ sessions' = [sessions EXCEPT ![s] = counted]
                       /\ calls' = [NoCalls EXCEPT
                                      !.check_password =
                                          IF compared THEN 1 ELSE 0,
                                      !.rotate_token =
                                          IF compared /\ ~matches THEN 1 ELSE 0]
                       /\ response' = render("accounts/password.html",
                                             IF compared /\ ~matches
                                             THEN "error:password" ELSE "")
                       /\ UNCHANGED users

\* The requests that can be in flight at the same time.
Requests == {"r1", "r2", "r3"}

\* A request slot with no request in it.
IdleRequest ==
    [pc |-> "idle", s |-> "", session |-> EmptySession,
     form |-> BlankPassword, modified |-> FALSE]

\* The password view handled in steps, so that requests of one session can
\* overlap.  These requests carry no new password.
RaceForms == {f \in PasswordForms : ~f.new_valid}

\* The request starts: the session is loaded from the store, and an
\* anonymous request is sent to the login page at once.
password_load(r, s, form) ==
    /\ inflight[r].pc = "idle"
    /\ UNCHANGED <<settings, users, profile, tokens, ratelimit, sessions,
                   wrong>>
    /\ IF get_user(sessions[s]) = Anonymous
       THEN /\ last' = [op |-> "password", method |-> "POST", s |-> s,
                        user |-> Anonymous]
            /\ response' = redirect_to_login
            /\ calls' = NoCalls
            /\ UNCHANGED inflight
       ELSE /\ inflight' = [inflight EXCEPT ![r] =
                               [pc |-> "loaded", s |-> s,
                                session |-> sessions[s], form |-> form,
                                modified |-> FALSE]]
            /\ UNCHANGED <<last, response, calls>>

\* The body of the view, on the session the request loaded: at the maximum
\* logout() flushes the stored session at once; below it the current
\* password of a valid PasswordChangeForm is compared and the counter is
\* written to the request's copy of the session.
password_handle(r) ==
    /\ inflight[r].pc = "loaded"
    /\ UNCHANGED <<settings, users, profile, tokens, ratelimit>>
    /\ LET s == inflight[r].s
           sess == inflight[r].session
           form == inflight[r].form
           u == sess.user
           attempts == sess.auth_attempts
           usable == users[u].usable
           locked == too_many_attempts(usable, "POST", attempts)
           compared == compares_password(usable, "POST", attempts, form)
           matches == check_password(u, form.password)
           counted == IF compared
                      THEN [sess EXCEPT !.auth_attempts =
                                         count_attempt(attempts, matches)]
                      ELSE sess
       IN  /\ last' = [op |-> "password", method |-> "POST", s |-> s,
                       user |-> u, attempts |-> attempts, usable |-> usable,
                       form |-> form, matches |-> compared /\ matches]
           /\ IF locked
              THEN /\ sessions' = [sessions EXCEPT ![s] = logout(sess)]
                   /\ inflight' = [inflight EXCEPT ![r].pc = "handled",
                                                   ![r].session = logout(sess),
                                                   ![r].modified = TRUE]
                   /\ response' = redirect("login", "error:attempts")
                   /\ calls' = NoCalls
                   /\ UNCHANGED wrong
              ELSE /\ (compared /\ ~matches) => wrong < MaxWrong
                   /\ wrong' = IF compared /\ ~matches
                               THEN wrong + 1 ELSE wrong
                   /\ inflight' = [inflight EXCEPT ![r].pc = "handled",
                                                   ![r].session = counted,
                                                   ![r].modified = compared]
                   /\ calls' = [NoCalls EXCEPT
                                  !.check_password = IF compared THEN 1 ELSE 0,
                                  !.rotate_token =
                                      IF compared /\ ~matches THEN 1 ELSE 0]
                   /\ response' = render("accounts/password.html",
                                         IF compared /\ ~matches
                                         THEN "error:password" ELSE "")
                   /\ UNCHANGED sessions

\* The response goes out: a session the request wrote to is saved as a
\* whole, over what the store holds, unless the stored session has been
\* deleted in the meantime.
password_save(r) ==
    /\ inflight[r].pc = "handled"
    /\ UNCHANGED <<settings, users, profile, tokens, ratelimit, wrong, calls,
                   response, last>>
    /\ inflight' = [inflight EXCEPT ![r] = IdleRequest]
    /\ LET s == inflight[r].s
       IN  sessions' =
             IF inflight[r].modified /\ sessions[s].user # Anonymous
             THEN [sessions EXCEPT ![s] = inflight[r].session]
             ELSE sessions

\* ------------------------------------------------------ account removal
\* remove_user(user): the account is closed and can no longer sign in.
remove_user(row) == [row EXCEPT !.is_active = FALSE]

user_remove(s, method, activetab) ==
    /\ UNCHANGED <<inflight, wrong, settings, profile, tokens, ratelimit>>
    /\ calls' = NoCalls
    /\ LET sess == resolve(sessions[s])
           u == sess.user
       IN  /\ last' = [op |-> "user_remove", method |-> method, s |-> s,
                       user |-> u, denied |-> u # Anonymous /\ is_demo(u)]
           /\ IF u = Anonymous
              THEN /\ response' = redirect_to_login
                   /\ sessions' = [sessions EXCEPT ![s] = sess]
                   /\ UNCHANGED users
              ELSE IF is_demo(u)
              THEN /\ response' = deny_demo(IF method = "POST"
                                            THEN activetab ELSE <<>>)
                   /\ sessions' = [sessions EXCEPT ![s] = sess]
                   /\ UNCHANGED users
              ELSE IF method = "POST"
              THEN /\ users' = [users EXCEPT ![u] = remove_user(users[u])]
                   /\ sessions' = [sessions EXCEPT ![s] = logout(sess)]
                   /\ response' = redirect("home", "success:removed")
              ELSE /\ response' = render("accounts/removal.html", "")
                   /\ sessions' = [sessions EXCEPT ![s] = sess]
                   /\ UNCHANGED users

\* ------------------------------------------------------- profile update
\* ProfileForm: the language is a required field, a form without it is
\* invalid.
required_language(f) == f.language = "" => "ProfileForm" \in f.invalid

\* The forms of a profile POST: which of the six are invalid, and the
\* language the ProfileForm carries.
ProfileForms ==
    {f \in [invalid : {{}} \cup {{g} : g \in FormNames} \cup {FormNames},
            language : Languages \cup {""}] : required_language(f)}

all_valid_any(form) == form.invalid # FormNames

\* all(form.is_valid() for form in forms)
all_valid(form) == form.invalid = {}

default_language_unset(row, locale) == row

\* profile.language defaulted from the request's locale when it is unset
default_language(row, locale) ==
    IF row.language = "" THEN [row EXCEPT !.language = locale] ELSE row

\* number of Profile.save() calls made to default the language
default_saves(row) == IF row.language = "" THEN 1 ELSE 0

save_profile_form_unsaved(row, form) == row

\* form.save() of the ProfileForm
save_profile_form(row, form) == [row EXCEPT !.language = form.language]

\* The profile page asked for with GET carries no form.
BlankProfile == [invalid |-> {}, language |-> "en"]

user_profile(s, method, form, locale, activetab) ==
    /\ UNCHANGED <<inflight, wrong, settings, users, tokens, ratelimit>>
    /\ LET sess == resolve(sessions[s])
           u == sess.user
       IN  /\ sessions' = [sessions EXCEPT ![s] = sess]
           /\ IF u = Anonymous
              THEN /\ last' = [op |-> "user_profile", method |-> method,
                               s |-> s, user |-> Anonymous]
                   /\ response' = redirect_to_login
                   /\ calls' = NoCalls
                   /\ UNCHANGED profile
              ELSE
              LET loaded == default_language(profile[u], locale)
                  defaulted == default_saves(profile[u])
                  post == method = "POST"
                  saved == save_profile_form(loaded, form)
              IN  /\ last' = [op |-> "user_profile", method |-> method,
                              s |-> s, user |-> u,
                              language |-> profile[u].language,
                              locale |-> IF profile[u].language = ""
                                         THEN locale ELSE "",
                              form |-> IF post THEN form ELSE BlankProfile,
                              denied |-> post /\ is_demo(u),
                              saved |-> post /\ ~is_demo(u) /\ all_valid(form)]
                  /\ IF post /\ is_demo(u)
                     THEN /\ profile' = [profile EXCEPT ![u] = loaded]
                          /\ calls' = [NoCalls EXCEPT
                                         !.profile_saves = defaulted]
                          /\ response' = deny_demo(activetab)
                     ELSE IF post /\ all_valid(form)
                     THEN /\ profile' = [profile EXCEPT ![u] = saved]
                          /\ calls' = [NoCalls EXCEPT
                                         !.profile_saves =
                                             defaulted + Cardinality(form_classes),
                                         !.user_saves = 1,
                                         !.set_lang = saved.language]
                          /\ response' =
                               [redirect_profile(activetab, "success:profile")
                                   EXCEPT !.cookie = saved.language]
                     ELSE /\ profile' = [profile EXCEPT ![u] = loaded]
                          /\ calls' = [NoCalls EXCEPT
                                         !.profile_saves = defaulted]
                          /\ response' =
                               [render("accounts/profile.html", "")
                                   EXCEPT !.cookie = loaded.language]

\* ------------------------------------------------- contact and hosting
\* check_rate_limit(request): whether the limiter lets the client through,
\* having counted attempts requests of that client.
check_rate_limit(attempts) == attempts < AUTH_MAX_ATTEMPTS

\* The limiter's count after the check: a request let through is counted.
count_request(attempts) ==
    IF check_rate_limit(attempts) THEN attempts + 1 ELSE attempts

\* subject % context for the two subject templates
format_subject(template, context) ==
    IF template = "%(subject)s"
    THEN context.subject
    ELSE <<"H", "o", "s", "t", "i", "n", "g", " ", "r", "e", "q", "u", "e",
           "s", "t", " ", "f", "o", "r", " ">> \o context.project

admin_mail_bare(subject, message, context, sender) ==
    [subject |-> format_subject(subject, context),
     body |-> [template |-> message, context |-> context],
     to |-> settings.ADMINS,
     reply_to |-> sender]

\* The EmailMultiAlternatives that mail_admins_contact() builds.
admin_mail(subject, message, context, sender) ==
    [subject |-> EMAIL_SUBJECT_PREFIX \o format_subject(subject, context),
     body |-> [template |-> message, context |-> context],
     to |-> settings.ADMINS,
     reply_to |-> sender]

\* mail_admins_contact(): the mails handed to the mail backend.
mail_admins_contact(subject, message, context, sender) ==
    IF settings.ADMINS = <<>>
    THEN <<>>
    ELSE <<admin_mail(subject, message, context, sender)>>

\* The message mail_admins_contact() leaves for the user.
mail_admins_message ==
    IF settings.ADMINS = <<>> THEN "error:not sent" ELSE "success:sent"

\* A view that raised: the mail backend refused the message.
ServerError ==
    [kind |-> "status", to |-> "500", arg |-> "", fragment |-> <<>>,
     cookie |-> "", message |-> ""]

\* The answer after mail_admins_contact(): the redirect to home, unless
\* mail.send(fail_silently=False) raised.
after_mail(delivered) ==
    IF settings.ADMINS # <<>> /\ ~delivered
    THEN ServerError
    ELSE redirect("home", mail_admins_message)

contact_sends_valid(allowed, form) == form.valid

\* Whether contact() mails the admins: the limiter lets the request through
\* and the form is valid.
contact_sends(allowed, form) == allowed /\ form.valid

ContactForms ==
    {[valid |-> FALSE, name |-> "", email |-> "", subject |-> <<>>,
      message |-> ""]}
    \cup {[valid |-> TRUE, name |-> "Test", email |-> "noreply@weblate.org",
           subject |-> x, message |-> "Hi"] : x \in Subjects}

HostingForms ==
    {[valid |-> FALSE, name |-> "", email |-> "", project |-> <<>>,
      message |-> ""]}
    \cup {[valid |-> TRUE, name |-> "Test", email |-> "noreply@weblate.org",
           project |-> x, message |-> "Hi"] : x \in Projects}

contact(s, method, form, delivered) ==
    /\ UNCHANGED <<inflight, wrong, settings, users, profile, tokens>>
    /\ LET allowed == check_rate_limit(ratelimit)
           sends == contact_sends(allowed, form)
       IN  IF method = "POST"
           THEN /\ last' = [op |-> "contact", method |-> method, s |-> s,
                            user |-> Anonymous, form |-> form,
                            limited |-> ~check_rate_limit(ratelimit),
                            delivered |-> sends /\ delivered]
                /\ ratelimit' = count_request(ratelimit)
                /\ UNCHANGED sessions
                /\ IF sends
                   THEN /\ calls' =
                             [NoCalls EXCEPT
                                !.check_rate_limit = 1,
                                !.mails = mail_admins_contact(
                                            "%(subject)s", "CONTACT_TEMPLATE",
                                            form, form.email)]
                        /\ response' = after_mail(delivered)
                   ELSE /\ calls' = [NoCalls EXCEPT !.check_rate_limit = 1]
                        /\ response' = render("accounts/contact.html",
                                              IF allowed THEN ""
                                              ELSE "error:too many")
           ELSE /\ last' = [op |-> "contact", method |-> method, s |-> s,
                            user |-> resolve(sessions[s]).user]
                /\ sessions' = [sessions EXCEPT ![s] = resolve(sessions[s])]
                /\ calls' = NoCalls
                /\ response' = render("accounts/contact.html", "")
                /\ UNCHANGED ratelimit

hosting(s, method, form, delivered) ==
    /\ UNCHANGED <<inflight, wrong, settings, users, profile, tokens,
                   ratelimit>>
    /\ LET sess == resolve(sessions[s])
           u == sess.user
           sends == /\ u # Anonymous
                    /\ settings.OFFER_HOSTING
                    /\ method = "POST"
                    /\ form.valid
           context == [name |-> form.name, email |-> form.email,
                       project |-> form.project, message |-> form.message,
                       username |-> u]
       IN  /\ sessions' = [sessions EXCEPT ![s] = sess]
           /\ last' = [op |-> "hosting", method |-> method, s |-> s,
                       user |-> u, form |-> form,
                       limited |-> ~check_rate_limit(ratelimit),
                       delivered |-> sends /\ delivered]
           /\ IF u = Anonymous
              THEN /\ response' = redirect_to_login
                   /\ calls' = NoCalls
              ELSE IF ~settings.OFFER_HOSTING
              THEN /\ response' = redirect("home", "")
                   /\ calls' = NoCalls
              ELSE IF sends
              THEN /\ calls' =
                        [NoCalls EXCEPT
                           !.mails = mail_admins_contact(
                                       "Hosting request for %(project)s",
                                       "HOSTING_TEMPLATE", context,
                                       form.email)]
                   /\ response' = after_mail(delivered)
              ELSE /\ response' = render("accounts/hosting.html", "")
                   /\ calls' = NoCalls

\* The limiter's window ends: the client's count starts again.
rate_limit_expire ==
    /\ ratelimit > 0
    /\ ratelimit' = 0
    /\ UNCHANGED <<inflight, wrong, settings, users, profile, tokens,
                   sessions, calls, response, last>>

\* ----------------------------------------------------------- registration
\* The forms of a registration POST: the RegistrationForm (valid or not, and
\* the user that already owns the address, if any) and the captcha.
RegistrationForms ==
    [valid : BOOLEAN, email_user : {Anonymous, "testuser"},
     captcha_valid : BOOLEAN]

\* The registration is taken: no captcha is asked for or the captcha is
\* valid, the form is valid and the registration is open.
registration_accepted(form) ==
    /\ ~settings.REGISTRATION_CAPTCHA \/ form.captcha_valid
    /\ form.valid
    /\ settings.REGISTRATION_OPEN

\* social_django.views.complete(request, 'email'): the flow goes on in the
\* identity provider pipeline.
complete(backend) ==
    [kind |-> "pipeline", to |-> "social:complete", arg |-> backend,
     fragment |-> <<>>, cookie |-> "", message |-> ""]

register(s, method, form) ==
    /\ UNCHANGED <<inflight, wrong, settings, users, profile, tokens,
                   ratelimit>>
    /\ LET accepted == method = "POST" /\ registration_accepted(form)
       IN  /\ last' = [op |-> "register", method |-> method, s |-> s,
                       user |-> Anonymous, form |-> form]
           /\ IF accepted /\ form.email_user # Anonymous
              THEN /\ calls' = [NoCalls EXCEPT
                                  !.notify = <<[user |-> form.email_user,
                                                activity |-> "connect"]>>]
                   /\ sessions' = [sessions EXCEPT
                                     ![s].registration_email_sent = TRUE]
                   /\ response' = redirect("email-sent", "")
              ELSE IF accepted
              THEN /\ calls' = NoCalls
                   /\ response' = complete("email")
                   /\ UNCHANGED sessions
              ELSE IF single_backend(settings.BACKENDS)
              THEN /\ calls' = NoCalls
                   /\ response' = redirect_begin(settings.BACKENDS)
                   /\ UNCHANGED sessions
              ELSE /\ calls' = NoCalls
                   /\ response' = render("accounts/register.html", "")
                   /\ UNCHANGED sessions

\* RegistrationTemplateView.get(): the page shown after the registration
\* mail has been sent.
email_sent(s) ==
    /\ UNCHANGED <<inflight, wrong, settings, users, profile, tokens,
                   ratelimit>>
    /\ calls' = NoCalls
    /\ IF ~sessions[s].registration_email_sent
       THEN /\ last' = [op |-> "email-sent", method |-> "GET", s |-> s,
                        user |-> Anonymous]
            /\ response' = redirect("home", "")
            /\ UNCHANGED sessions
       ELSE LET sess == resolve(sessions[s])
            IN  /\ last' = [op |-> "email-sent", method |-> "GET", s |-> s,
                            user |-> sess.user]
                /\ sessions' =
                     [sessions EXCEPT ![s] =
                        IF sess.user = Anonymous
                        THEN flush(sess)
                        ELSE [sess EXCEPT !.registration_email_sent = FALSE]]
                /\ response' = render("accounts/email-sent.html", "")

\* -------------------------------------------------------- API key reset
require_POST_any(method) == TRUE

\* @require_POST
require_POST(method) == method = "POST"

\* get_random_string(n): some string of n characters.
TokenValues == {"k1", "k2", "k3"}
get_random_string(n) == {[length |-> n, value |-> v] : v \in TokenValues}

\* The user's tokens (request.user.auth_token, when there is one).
auth_token(u) == {tok \in tokens : tok.user = u}

delete_auth_token_kept(toks, u) == toks

\* request.user.auth_token.delete(), when the user has a token
delete_auth_token(toks, u) == {tok \in toks : tok.user # u}

reset_api_key(s, method, key) ==
    /\ UNCHANGED <<inflight, wrong, settings, users, profile, ratelimit>>
    /\ calls' = NoCalls
    /\ IF ~require_POST(method)
       THEN /\ last' = [op |-> "reset_api_key", method |-> method, s |-> s,
                        user |-> Anonymous]
            /\ response' = HttpResponseNotAllowed
            /\ UNCHANGED <<sessions, tokens>>
       ELSE LET sess == resolve(sessions[s])
                u == sess.user
            IN  /\ last' = [op |-> "reset_api_key", method |-> method,
                            s |-> s, user |-> u,
                            token |-> IF u = Anonymous THEN {}
                                      ELSE auth_token(u)]
                /\ sessions' = [sessions EXCEPT ![s] = sess]
                /\ IF u = Anonymous
                   THEN /\ response' = redirect_to_login
                        /\ UNCHANGED tokens
                   ELSE /\ key \notin {tok.key : tok \in tokens \ auth_token(u)}
                        /\ tokens' = delete_auth_token(tokens, u)
                                        \cup {[user |-> u, key |-> key]}
                        /\ response' = redirect_profile(ApiTab, "")

\* ---------------------------------------------------------- initial state
DefaultSettings ==
    [DEMO_SERVER |-> FALSE, ADMINS |-> <<"admin@example.org">>,
     OFFER_HOSTING |-> TRUE, REGISTRATION_OPEN |-> TRUE,
     REGISTRATION_CAPTCHA |-> FALSE, BACKENDS |-> {"email", "github"}]

\* A user created with a password, as create_user() leaves it.
PasswordUser ==
    [usable |-> TRUE, password |-> "p1", salt |-> 0, is_active |-> TRUE]

\* A user created by an external identity provider: no usable password.
SocialUser ==
    [usable |-> FALSE, password |-> "", salt |-> 0, is_active |-> TRUE]

\* A session signed in as u.
SignedIn(u, row, flag) ==
    [EmptySession EXCEPT !.user = u,
                         !.hash = [password |-> row.password,
                                   salt |-> row.salt],
                         !.show_set_password = flag]

\* The accounts after setup: the demo account, and one user who either has
\* a password or came from an identity provider.
Accounts(social) ==
    [u \in Usernames |->
        IF u = "testuser" /\ social THEN SocialUser ELSE PasswordUser]

\* Nothing requested yet; profiles start with no language.
InitIdle ==
    /\ inflight = [r \in Requests |-> IdleRequest]
    /\ wrong = 0
    /\ profile = [u \in Usernames |-> [language |-> ""]]
    /\ tokens = {}
    /\ ratelimit = 0
    /\ calls = NoCalls
    /\ response = NoResponse
    /\ last = NoRequest

\* A demo server.  The user with a password is signed out; the user of an
\* identity provider is signed in on the first browser, with or without the
\* flag that asks for a password to be set.
Init ==
    /\ settings = [DefaultSettings EXCEPT !.DEMO_SERVER = TRUE]
    /\ InitIdle
    /\ \E social \in BOOLEAN, flag \in BOOLEAN :
          /\ users = Accounts(social)
          /\ sessions = [s \in Sessions |->
                            IF s = "s1" /\ social
                            THEN SignedIn("testuser", SocialUser, flag)
                            ELSE EmptySession]
          /\ (~social => ~flag)

\* A server, demo or not, with the demo account signed in on the first
\* browser and the user on the second.
InitSignedIn ==
    /\ \E demo \in BOOLEAN :
          settings = [DefaultSettings EXCEPT !.DEMO_SERVER = demo]
    /\ InitIdle
    /\ \E social \in BOOLEAN :
          /\ users = Accounts(social)
          /\ sessions =
               [s \in Sessions |->
                  CASE s = "s1" -> SignedIn("demo", PasswordUser, FALSE)
                    [] s = "s2" -> SignedIn("testuser",
                                            Accounts(social)["testuser"],
                                            social)
                    [] OTHER -> EmptySession]

\* A server with or without admins and with or without the hosting offer;
\* the user is signed in on the second browser.
InitRelay ==
    /\ \E admins \in Admins, offer \in BOOLEAN :
          settings = [DefaultSettings EXCEPT !.ADMINS = admins,
                                             !.OFFER_HOSTING = offer]
    /\ InitIdle
    /\ users = Accounts(FALSE)
    /\ sessions = [s \in Sessions |->
                      IF s = "s2"
                      THEN SignedIn("testuser", PasswordUser, FALSE)
                      ELSE EmptySession]

\* The requests of the browsers in B.
LoginGet(B) == \E s \in B : weblate_login(s, "GET", "demo", "")

LoginPost(B, U) ==
    \E s \in B, u \in U, raw \in Passwords :
        weblate_login(s, "POST", u, raw)

Logout(B) == \E s \in B, method \in Methods : weblate_logout(s, method)

PasswordGet(B) == \E s \in B : password(s, "GET", BlankPassword, <<>>)

PasswordPost(B) ==
    \E s \in B, form \in PasswordForms, activetab \in Tabs :
        password(s, "POST", form, activetab)

UserRemove(B) ==
    \E s \in B, method \in Methods, activetab \in Tabs :
        user_remove(s, method, activetab)

ProfileGet(B) ==
    \E s \in B, locale \in Languages :
        user_profile(s, "GET", BlankProfile, locale, <<>>)

ProfilePost(B) ==
    \E s \in B, form \in ProfileForms, locale \in Languages,
       activetab \in Tabs :
        user_profile(s, "POST", form, locale, activetab)

\* The browsers that send requests.
Browsers == {"s1", "s2"}

Next ==
    \/ LoginGet(Browsers)
    \/ LoginPost(Browsers, Usernames)
    \/ Logout(Browsers)
    \/ PasswordGet(Browsers)
    \/ PasswordPost(Browsers)
    \/ UserRemove(Browsers)

Spec == Init /\ [][Next]_vars

\* Three browsers of one user: sign in, sign out and change the password.
NextSessions ==
    \/ LoginPost(Sessions, {"testuser"})
    \/ Logout(Sessions)
    \/ PasswordGet(Sessions)
    \/ PasswordPost(Sessions)

SpecSessions == Init /\ [][NextSessions]_vars

\* The browsers load and save the profile.
NextProfile ==
    \/ ProfileGet(Sessions)
    \/ ProfilePost(Sessions)

SpecProfile == InitSignedIn /\ [][NextProfile]_vars

\* The browser of the demo account edits the profile, the password and the
\* account, on a demo server and on another one.
NextDemo ==
    \/ ProfileGet({"s1"})
    \/ ProfilePost({"s1"})
    \/ PasswordGet({"s1"})
    \/ PasswordPost({"s1"})
    \/ UserRemove({"s1"})

SpecDemo == InitSignedIn /\ [][NextDemo]_vars

ContactGet(B) ==
    \E s \in B : contact(s, "GET", CHOOSE f \in ContactForms : ~f.valid, TRUE)

ContactPost(B) ==
    \E s \in B, form \in ContactForms, delivered \in BOOLEAN :
        contact(s, "POST", form, delivered)

HostingGet(B) ==
    \E s \in B : hosting(s, "GET", CHOOSE f \in HostingForms : ~f.valid, TRUE)

HostingPost(B) ==
    \E s \in B, form \in HostingForms, delivered \in BOOLEAN :
        hosting(s, "POST", form, delivered)

\* A visitor and the signed-in user write to the admins.
NextRelay ==
    \/ ContactGet({"s1", "s2"})
    \/ ContactPost({"s1", "s2"})
    \/ HostingGet({"s1", "s2"})
    \/ HostingPost({"s1", "s2"})
    \/ rate_limit_expire

SpecRelay == InitRelay /\ [][NextRelay]_vars

\* A server with any set of backends, open or closed for registration,
\* with or without the captcha.
InitRegister ==
    /\ \E backends \in BackendSets, open \in BOOLEAN, captcha \in BOOLEAN :
          settings = [DefaultSettings EXCEPT
                        !.BACKENDS = backends,
                        !.REGISTRATION_OPEN = open,
                        !.REGISTRATION_CAPTCHA = captcha]
    /\ InitIdle
    /\ users = Accounts(FALSE)
    /\ sessions = [s \in Sessions |->
                      IF s = "s2"
                      THEN SignedIn("testuser", PasswordUser, FALSE)
                      ELSE EmptySession]

RegisterGet(B) ==
    \E s \in B :
        register(s, "GET", [valid |-> FALSE, email_user |-> Anonymous,
                            captcha_valid |-> FALSE])

RegisterPost(B) ==
    \E s \in B, form \in RegistrationForms : register(s, "POST", form)

EmailSent(B) == \E s \in B : email_sent(s)

\* A visitor and a signed-in user at the registration page.
NextRegister ==
    \/ RegisterGet({"s1", "s2"})
    \/ RegisterPost({"s1", "s2"})
    \/ EmailSent({"s1", "s2"})
    \/ LoginGet({"s1", "s2"})

SpecRegister == InitRegister /\ [][NextRegister]_vars

ResetApiKey(B) ==
    \E s \in B, method \in Methods, key \in get_random_string(40) :
        reset_api_key(s, method, key)

\* The browsers reset API keys.
NextApi ==
    \/ ResetApiKey(Sessions)

SpecApi == InitSignedIn /\ [][NextApi]_vars

\* The user loads and saves the profile, changes the password, resets the API
\* key, signs out and in, and removes the account.
NextLanguage ==
    \/ ProfileGet({"s2"})
    \/ ProfilePost({"s2"})
    \/ PasswordGet({"s2"})
    \/ PasswordPost({"s2"})
    \/ Logout({"s2"})
    \/ LoginPost({"s2"}, {"testuser"})
    \/ ResetApiKey({"s2"})
    \/ UserRemove({"s2"})

SpecLanguage == InitSignedIn /\ [][NextLanguage]_vars

\* A server that is no demo server, with the user signed in on the second
\* browser.
InitRace ==
    /\ settings = DefaultSettings
    /\ InitIdle
    /\ users = Accounts(FALSE)
    /\ sessions = [s \in Sessions |->
                      IF s = "s2"
                      THEN SignedIn("testuser", PasswordUser, FALSE)
                      ELSE EmptySession]

PasswordLoad ==
    \E r \in Requests, form \in RaceForms : password_load(r, "s2", form)

PasswordHandle == \E r \in Requests : password_handle(r)

PasswordSave == \E r \in Requests : password_save(r)

\* Password POSTs of one session, handled at the same time.
NextRace ==
    \/ PasswordLoad
    \/ PasswordHandle
    \/ PasswordSave

SpecRace == InitRace /\ [][NextRace]_vars

\* ----------------------------------------------------------------- claims
PasswordRequest ==
    last.op = "password" /\ last.user # Anonymous

\* C1: a password POST of an account with a usable password that finds the
\* session's auth_attempts at AUTH_MAX_ATTEMPTS or above is answered with the
\* error redirect to login and leaves the session logged out with no counter;
\* and a session that has just logged in has its counter at zero.
C1_ForcedLogout ==
    /\ (/\ PasswordRequest
        /\ last.method = "POST"
        /\ last.usable
        /\ last.attempts >= AUTH_MAX_ATTEMPTS)
       => /\ response = redirect("login", "error:attempts")
          /\ ~is_authenticated(last.s)
          /\ sessions[last.s].user = Anonymous
          /\ sessions[last.s].auth_attempts = 0
    /\ (last.op = "login" /\ last.logged_in)
       => /\ is_authenticated(last.s)
          /\ sessions[last.s].auth_attempts = 0

C1_Witness ==
    /\ PasswordRequest
    /\ last.method = "POST"
    /\ last.usable
    /\ last.attempts >= AUTH_MAX_ATTEMPTS
    /\ response.to = "login"

\* C2: after an accepted password change the session that made it is still
\* logged in as the user, its key has been cycled, and every other session
\* that was logged in as that user is no longer authenticated.
C2_OtherSessionsInvalidated ==
    (PasswordRequest /\ last.changed)
    => /\ get_user(sessions[last.s]) = last.user
       /\ calls.cycle_key >= 1
       /\ \A t \in last.others : ~is_authenticated(t)
       /\ \A t \in Sessions \ {last.s} :
             get_user(sessions[t]) # last.user

C2_Witness ==
    /\ PasswordRequest
    /\ last.changed
    /\ Cardinality(last.others) = 2

ProfilePost_ ==
    last.op = "user_profile" /\ last.user # Anonymous /\ last.method = "POST"

\* C3 as stated: a profile POST with an invalid sub-form makes no
\* persistence call at all, whatever the profile held before.
C3_Original ==
    (ProfilePost_ /\ last.form.invalid # {})
    => calls.profile_saves = 0 /\ calls.user_saves = 0

\* C3, amended: a profile POST with an invalid sub-form saves none of the
\* sub-forms.  The User is not saved; the Profile is saved only to store the
\* language defaulted from the request locale, once, when it was unset.
C3_InvalidSavesNoForm ==
    (ProfilePost_ /\ last.form.invalid # {})
    => /\ calls.user_saves = 0
       /\ calls.profile_saves = (IF last.language = "" THEN 1 ELSE 0)
       /\ profile[last.user].language =
             (IF last.language = "" THEN last.locale ELSE last.language)
       /\ response.kind = IF settings.DEMO_SERVER /\ last.user = "demo"
                          THEN "redirect" ELSE "render"

C3_Witness ==
    /\ ProfilePost_
    /\ last.form.invalid = {"UserForm"}
    /\ last.language = "en"
    /\ last.form.language = "cs"
    /\ calls.profile_saves = 0
    /\ response.kind = "render"

DemoEdit(req) ==
    /\ settings.DEMO_SERVER
    /\ req.user = "demo"
    /\ \/ req.op = "password"
       \/ req.op = "user_remove"
       \/ req.op = "user_profile" /\ req.method = "POST"

\* C9 as stated: a profile POST of the demo account on a demo server makes
\* no Profile save and no User save.
C9_Original ==
    (DemoEdit(last) /\ last.op = "user_profile")
    => calls.profile_saves = 0 /\ calls.user_saves = 0

\* C9, amended: on a demo server a profile POST, a password request and an
\* account removal request of the demo account are answered with the warning
\* redirect to the profile and change no user, session or token, whatever the
\* forms hold.  The profile POST saves no sub-form; its only Profile save is
\* the one that stores the defaulted language when the language was unset.
C9_DemoBlocked ==
    [][DemoEdit(last')
       => /\ users' = users
          /\ sessions' = sessions
          /\ tokens' = tokens
          /\ response'.kind = "redirect"
          /\ response'.to = "profile"
          /\ response'.message = "warning:demo"
          /\ calls'.user_saves = 0
          /\ IF last'.op = "user_profile"
             THEN /\ calls'.profile_saves =
                        (IF profile["demo"].language = "" THEN 1 ELSE 0)
                  /\ profile' =
                        [profile EXCEPT !["demo"].language =
                            IF @ = "" THEN last'.locale ELSE @]
             ELSE /\ calls' = NoCalls
                  /\ profile' = profile]_vars

C9_Witness ==
    /\ DemoEdit(last)
    /\ last.op = "user_profile"
    /\ last.form.invalid = {}
    /\ last.language = "en"
    /\ last.form.language = "cs"
    /\ profile["demo"].language = "en"
    /\ response.message = "warning:demo"

ContactPost_ == last.op = "contact" /\ last.method = "POST"

\* C4: a contact POST that the rate limiter denies hands no mail to the mail
\* backend, valid form or not, and is answered with the contact form and the
\* rate limit error.
C4_RateLimitedContact ==
    (ContactPost_ /\ last.limited)
    => /\ calls.mails = <<>>
       /\ calls.check_rate_limit = 1
       /\ response = render("accounts/contact.html", "error:too many")

C4_Witness ==
    /\ ContactPost_
    /\ last.limited
    /\ last.form.valid
    /\ settings.ADMINS # <<>>
    /\ response.message = "error:too many"

C10_HostingRateLimited ==
    (/\ last.op = "hosting"
     /\ last.method = "POST"
     /\ last.user # Anonymous
     /\ settings.OFFER_HOSTING
     /\ last.limited)
    => calls.mails = <<>>

\* C6: a GET of the API key reset is answered with status 405 and leaves
\* every token as it was: none is deleted and none is created.
C6_ApiKeyGetRejected ==
    [][(last'.op = "reset_api_key" /\ last'.method = "GET")
       => /\ response'.kind = "status"
          /\ response'.to = "405"
          /\ tokens' = tokens
          /\ users' = users
          /\ sessions' = sessions]_vars

C6_Witness ==
    /\ last.op = "reset_api_key"
    /\ last.method = "GET"
    /\ is_authenticated(last.s)
    /\ auth_token(get_user(sessions[last.s])) # {}
    /\ response.to = "405"

\* C8 as stated: with one backend configured, not the email backend, every
\* request to the registration is answered with the redirect to the begin
\* flow of that backend.
C8_SingleBackendRedirect ==
    (last.op = "register" /\ settings.BACKENDS = {"github"})
    => /\ response.kind = "redirect"
       /\ response.to = "social:begin"
       /\ response.arg = "github"

\* C11 as stated: a profile POST of a user who is not the demo account of a
\* demo server persists something if and only if all six sub-forms are valid.
C11_Original ==
    (ProfilePost_ /\ ~(settings.DEMO_SERVER /\ last.user = "demo"))
    => ((calls.profile_saves + calls.user_saves > 0)
           <=> last.form.invalid = {})

\* C11, amended: a profile POST of a user who is not the demo account of a
\* demo server saves the sub-forms if and only if all six are valid.  When
\* they are, the five Profile forms and the User form are each saved, the
\* language of the saved profile is applied, and the redirect to the profile
\* carries a language cookie equal to the profile's language after the save.
\* When one is invalid the only save is the one that stores the language
\* defaulted from the request locale, made when the language was unset.
C11_ProfileSaved ==
    (ProfilePost_ /\ ~(settings.DEMO_SERVER /\ last.user = "demo"))
    => LET defaulted == IF last.language = "" THEN 1 ELSE 0
       IN  IF last.form.invalid = {}
           THEN /\ calls.profile_saves = defaulted + 5
                /\ calls.user_saves = 1
                /\ profile[last.user].language = last.form.language
                /\ calls.set_lang = profile[last.user].language
                /\ response.kind = "redirect"
                /\ response.to = "profile"
                /\ response.cookie = profile[last.user].language
           ELSE /\ calls.profile_saves = defaulted
                /\ calls.user_saves = 0
                /\ calls.set_lang = ""
                /\ profile[last.user].language =
                      (IF last.language = "" THEN last.locale
                       ELSE last.language)
                /\ response.kind = "render"

C11_Witness ==
    /\ ProfilePost_
    /\ last.user = "testuser"
    /\ last.form.invalid = {}
    /\ last.language = "en"
    /\ last.form.language = "cs"
    /\ calls.user_saves = 1
    /\ response.cookie = "cs"

ApiKeyPost ==
    last.op = "reset_api_key" /\ last.method = "POST" /\ last.user # Anonymous

\* C12: no user ever holds more than one API token, and after an API key
\* reset POST of a signed-in user, whether the user held a token before or
\* not, the user holds exactly one token, its key 40 characters long, and the
\* answer is the redirect to the API section of the profile.
C12_ExactlyOneToken ==
    /\ \A u \in Usernames : Cardinality(auth_token(u)) <= 1
    /\ ApiKeyPost
       => /\ Cardinality(auth_token(last.user)) = 1
          /\ \A tok \in auth_token(last.user) : tok.key.length = 40
          /\ response.kind = "redirect"
          /\ response.to = "profile"
          /\ response.fragment = <<"#", "a", "p", "i">>

C12_Witness ==
    /\ ApiKeyPost
    /\ last.token # {}
    /\ last.token # auth_token(last.user)
    /\ Cardinality(auth_token(last.user)) = 1

ProfileLoaded(u) == last.op = "user_profile" /\ last.user = u

WrongPassword(req, row) ==
    /\ req.op = "password"
    /\ req.method = "POST"
    /\ req.user # Anonymous
    /\ row.usable
    /\ req.attempts < AUTH_MAX_ATTEMPTS
    /\ req.form.cur_valid
    /\ req.form.password # row.password

WrongPasswordCounted(req) ==
    /\ sessions'[req.s].auth_attempts = sessions[req.s].auth_attempts + 1
    /\ sessions'[req.s].auth_attempts = req.attempts + 1
    /\ calls'.rotate_token = 1
    /\ calls'.check_password = 1
    /\ users' = users
    /\ sessions'[req.s].user = req.user
    /\ sessions'[req.s].hash = sessions[req.s].hash
    /\ response'.kind = "render"
    /\ response'.message = "error:password"

\* C14 as stated: every password POST below the maximum with a valid
\* PasswordChangeForm and a current password that does not match adds one to
\* the session's counter, rotates the anti-forgery token, leaves the users
\* alone and keeps the session signed in.
C14_Original ==
    [][(last'.user # Anonymous /\ WrongPassword(last', users[last'.user]))
       => WrongPasswordCounted(last')]_vars

\* C14, amended: the same, for every account but the demo account of a demo
\* server, whose password POST is turned away before anything is compared
\* or counted.
C14_WrongPasswordCounted ==
    [][(/\ last'.user # Anonymous
        /\ WrongPassword(last', users[last'.user])
        /\ ~(settings.DEMO_SERVER /\ last'.user = "demo"))
       => WrongPasswordCounted(last')]_vars

C14_Witness ==
    /\ last.op = "password"
    /\ last.method = "POST"
    /\ last.user = "testuser"
    /\ last.attempts = 1
    /\ last.form.cur_valid
    /\ last.form.new_valid
    /\ ~last.matches
    /\ sessions[last.s].auth_attempts = 2
    /\ calls.rotate_token = 1
    /\ is_authenticated(last.s)

\* The stored password of u differs between the two states of a step.
PasswordStored(u) ==
    <<users[u].usable, users[u].password, users[u].salt>>

\* C15: the stored password of a user differs after a step only when the
\* step is a password POST of that user with a valid SetPasswordForm, made
\* either by an account without a usable password or below the maximum with
\* a valid PasswordChangeForm that carries the stored password; and a
\* password POST of an account with a usable password that finds the counter
\* at the maximum changes no user, whatever current password it carries.
C15_PasswordChangesOnlyWhenAllowed ==
    [][/\ \A u \in Usernames :
            PasswordStored(u)' # PasswordStored(u)
            => /\ last'.op = "password"
               /\ last'.method = "POST"
               /\ last'.user = u
               /\ last'.form.new_valid
               /\ users'[u].password = last'.form.new_password
               /\ \/ ~users[u].usable
                  \/ /\ last'.attempts < AUTH_MAX_ATTEMPTS
                     /\ last'.form.cur_valid
                     /\ last'.form.password = users[u].password
       /\ (/\ last'.op = "password"
           /\ last'.method = "POST"
           /\ last'.user # Anonymous
           /\ last'.usable
           /\ last'.attempts >= AUTH_MAX_ATTEMPTS)
          => users' = users]_vars

C15_Witness ==
    /\ PasswordRequest
    /\ last.method = "POST"
    /\ last.usable
    /\ last.attempts = 1
    /\ last.matches
    /\ last.changed
    /\ users[last.user].password = last.form.new_password
    /\ users[last.user].salt = 1

\* The session of browser s goes on through the step: it is signed in, as
\* the same user, before and after, and was not opened by the step.
SessionKept(s) ==
    /\ sessions[s].user # Anonymous
    /\ sessions'[s].user = sessions[s].user
    /\ ~(last'.op = "login" /\ last'.s = s /\ last'.logged_in)

\* C16 as stated: while a session goes on, its attempt counter gets lower
\* only in a step that changes the password, and differs after a step only
\* for a password POST of that session with a valid PasswordChangeForm.
C16_Original ==
    [][\A s \in Sessions :
          SessionKept(s)
          => /\ sessions'[s].auth_attempts < sessions[s].auth_attempts
                => /\ last'.op = "password"
                   /\ last'.s = s
                   /\ last'.changed
                   /\ sessions'[s].auth_attempts = 0
             /\ sessions'[s].auth_attempts # sessions[s].auth_attempts
                => /\ last'.op = "password"
                   /\ last'.s = s
                   /\ last'.method = "POST"
                   /\ last'.form.cur_valid]_vars

\* C16, amended: while a session goes on, its attempt counter gets lower
\* only by being set to zero in a password POST of that session whose valid
\* PasswordChangeForm carries the stored password, whether or not the
\* password is then changed; it differs after a step only for a password
\* POST of that session with a valid PasswordChangeForm, and every other
\* request leaves it as it was.
C16_CounterCeiling ==
    [][\A s \in Sessions :
          SessionKept(s)
          => /\ sessions'[s].auth_attempts < sessions[s].auth_attempts
                => /\ last'.op = "password"
                   /\ last'.s = s
                   /\ last'.form.password = users[sessions[s].user].password
                   /\ sessions'[s].auth_attempts = 0
             /\ sessions'[s].auth_attempts # sessions[s].auth_attempts
                => /\ last'.op = "password"
                   /\ last'.s = s
                   /\ last'.method = "POST"
                   /\ last'.form.cur_valid]_vars

C16_Witness ==
    /\ PasswordRequest
    /\ last.method = "POST"
    /\ last.attempts = 1
    /\ last.matches
    /\ ~last.changed
    /\ ~last.form.new_valid
    /\ is_authenticated(last.s)
    /\ sessions[last.s].auth_attempts = 0

\* C17: whatever the order in which the steps of overlapping password POSTs
\* of one session are taken, the counter in the stored session, and in the
\* copy of the session each request works on, is between 0 and
\* AUTH_MAX_ATTEMPTS.
C17_CounterBounded ==
    /\ \A s \in Sessions :
          sessions[s].auth_attempts \in 0..AUTH_MAX_ATTEMPTS
    /\ \A r \in Requests :
          inflight[r].session.auth_attempts \in 0..AUTH_MAX_ATTEMPTS

\* Increments are lost: more wrong passwords have been compared than the
\* maximum, and the session is still signed in with its counter below it.
C17_Witness ==
    /\ wrong > AUTH_MAX_ATTEMPTS
    /\ is_authenticated("s2")
    /\ sessions["s2"].auth_attempts < AUTH_MAX_ATTEMPTS
    /\ \A r \in Requests : inflight[r].pc = "idle"

====
